---- MODULE Spec2Model ----
(***************************************************************************)
(* Model of chinese_extractor_gui.py: the text extractor                   *)
(* (extract_chinese_text), the script converter (convert_chinese) and the  *)
(* handlers of ExtractorApp (load_txt, extract, save_txt, clear).          *)
(*                                                                         *)
(* A text is a sequence of characters.  A character is a string: an ASCII  *)
(* character stands for itself, any other is named by its code point       *)
(* ("U4F60" is the ideograph U+4F60, "LF" the line feed, "CR" the carriage *)
(* return).                                                                *)
(***************************************************************************)
EXTENDS Integers, Sequences, FiniteSets, TLC

VARIABLES
    raw_text,       \* extract_chinese_text: the argument
    pc,             \* extract_chinese_text: "idle" | "call" | "loop" | "done"
    lines,          \* extract_chinese_text: the trimmed lines
    idx,            \* extract_chinese_text: 1-based position of the for loop
    line,           \* extract_chinese_text: `line` at the end of the last iteration
    text,           \* extract_chinese_text: `text` of the last iteration (<<>> if skipped)
    result_parts,   \* extract_chinese_text: the accumulator
    result,         \* extract_chinese_text: the returned string
    opencc,         \* the runtime: "ok" | "missing" | "raises"
    hanziconv,      \* the runtime: "ok" | "missing" | "raises"
    conv_text,      \* convert_chinese: the argument text
    conv_mode,      \* convert_chinese: the argument mode
    cpc,            \* convert_chinese: "idle" | "opencc" | "hanziconv" | "done"
    consulted,      \* convert_chinese: the libraries whose import was attempted
    conv_ret,       \* convert_chinese: the returned string
    conv_raised,    \* convert_chinese: did an exception reach the caller
    input_text,     \* ExtractorApp: content of the input widget
    output_text,    \* ExtractorApp: content of the output widget
    convert_mode,   \* ExtractorApp: the StringVar behind the radio buttons
    event,          \* ExtractorApp: the handler that ran last
    dialog,         \* ExtractorApp: the message box the last handler showed
    picker,         \* ExtractorApp: did the last handler open the save picker
    written         \* ExtractorApp: what the last handler wrote to a file

exvars == <<raw_text, pc, lines, idx, line, text, result_parts, result>>
envvars == <<opencc, hanziconv>>
convvars == <<conv_text, conv_mode, cpc, consulted, conv_ret, conv_raised>>
guivars == <<input_text, output_text, convert_mode, event, dialog, picker, written>>
vars == <<exvars, envvars, convvars, guivars>>

----------------------------------------------------------------------------
(* Character classes of the regular expressions.                           *)

\* [\u4e00-\u9fff]
CJK == {"U4F60", "U56FD", "U570B"}

\* [A-Za-z]
AsciiLetters == {"A"}

\* [0-9]
AsciiDigits == {"1"}

\* \d of a str pattern: every Unicode decimal digit ("UFF11" is the full-width 1)
Digits == AsciiDigits \cup {"UFF11"}

\* \s, and what str.strip() removes
Whitespace == {" ", "LF", "CR"}

\* the boundaries of str.splitlines()
LineBreaks == {"LF", "CR"}

\* [\.\u3001]
OrdinalSeparators == {".", "U3001"}

\* the punctuation of the allow-list; "U3001" is the enumeration comma,
\* "U3002" the full stop, "UFF08"/"UFF09" the full-width parentheses
CJKPunctuation == {"U3001", "U3002", "UFF08", "UFF09"}

\* the character class of the findall pattern
AllowList == CJK \cup AsciiLetters \cup AsciiDigits \cup CJKPunctuation \cup Whitespace

----------------------------------------------------------------------------
(* String primitives.                                                      *)

Drop(s, n) == SubSeq(s, n + 1, Len(s))

RECURSIVE LStrip(_)
LStrip(s) ==
    IF s # <<>> /\ s[1] \in Whitespace THEN LStrip(Tail(s)) ELSE s

RECURSIVE RStrip(_)
RStrip(s) ==
    IF s # <<>> /\ s[Len(s)] \in Whitespace
    THEN RStrip(SubSeq(s, 1, Len(s) - 1))
    ELSE s

\* str.strip()
Strip(s) == RStrip(LStrip(s))

\* str.splitlines(): CR LF is one boundary, no empty last line
RECURSIVE SplitFrom(_, _, _, _)
SplitFrom(s, i, cur, acc) ==
    IF i > Len(s)
    THEN IF cur = <<>> THEN acc ELSE Append(acc, cur)
    ELSE IF s[i] = "CR" /\ i < Len(s) /\ s[i + 1] = "LF"
    THEN SplitFrom(s, i + 2, <<>>, Append(acc, cur))
    ELSE IF s[i] \in LineBreaks
    THEN SplitFrom(s, i + 1, <<>>, Append(acc, cur))
    ELSE SplitFrom(s, i + 1, Append(cur, s[i]), acc)

splitlines(s) == SplitFrom(s, 1, <<>>, <<>>)

\* [line.strip() for line in raw_text.splitlines()]
StripLines(ls) == [i \in 1..Len(ls) |-> Strip(ls[i])]

\* the length of the longest prefix of s made of characters of class
RECURSIVE Span(_, _)
Span(s, class) ==
    IF s # <<>> /\ s[1] \in class THEN 1 + Span(Tail(s), class) ELSE 0

\* the least j > i with s[j] = c, or 0
RECURSIVE FindFrom(_, _, _)
FindFrom(s, i, c) ==
    IF i >= Len(s) THEN 0
    ELSE IF s[i + 1] = c THEN i + 1
    ELSE FindFrom(s, i + 1, c)

----------------------------------------------------------------------------
(* The steps of one iteration of the loop.                                 *)

\* the annotation pattern with ")" excluded from the enclosed characters
IsAnnotationLineNoInner(l) ==
    /\ Len(l) >= 2
    /\ l[1] = "("
    /\ l[Len(l)] = ")"
    /\ \A i \in 2..(Len(l) - 1) : l[i] \notin CJK \cup {")"}

\* re.fullmatch(r"\([^\u4e00-\u9fff]*\)", line)
IsAnnotationLine(l) ==
    /\ Len(l) >= 2
    /\ l[1] = "("
    /\ l[Len(l)] = ")"
    /\ \A i \in 2..(Len(l) - 1) : l[i] \notin CJK

\* the ordinal pattern applied until it matches no more
RECURSIVE StripOrdinalRepeated(_)
StripOrdinalRepeated(l) ==
    LET a == Drop(l, Span(l, Whitespace))
        n == Span(a, Digits)
        b == Drop(a, n)
        c == Drop(b, Span(b, Whitespace))
    IN  IF n >= 1 /\ c # <<>> /\ c[1] \in OrdinalSeparators
        THEN StripOrdinalRepeated(LStrip(Tail(c)))
        ELSE l

\* re.sub(r"^\s*\d+\s*[\.\u3001]\s*", "", line)
StripOrdinal(l) ==
    LET a == Drop(l, Span(l, Whitespace))
        n == Span(a, Digits)
        b == Drop(a, n)
        c == Drop(b, Span(b, Whitespace))
    IN  IF n >= 1 /\ c # <<>> /\ c[1] \in OrdinalSeparators
        THEN LStrip(Tail(c))
        ELSE l

\* re.sub(open [^close]* close, "", line): leftmost matches, left to right
RECURSIVE RemoveEnclosed(_, _, _)
RemoveEnclosed(s, open, close) ==
    IF s = <<>> THEN <<>>
    ELSE IF s[1] = open /\ FindFrom(s, 1, close) # 0
    THEN RemoveEnclosed(Drop(s, FindFrom(s, 1, close)), open, close)
    ELSE <<s[1]>> \o RemoveEnclosed(Tail(s), open, close)

\* re.sub(r"\([^)]*\)", "", line)
RemoveAsciiParens(l) == RemoveEnclosed(l, "(", ")")

\* the full-width parentheses left alone
KeepFullWidthParens(l) == l

\* only the first full-width parenthetical removed (count=1)
RemoveFirstFullWidthParens(l) ==
    IF \E i \in 1..Len(l) : l[i] = "UFF08" /\ FindFrom(l, i, "UFF09") # 0
    THEN LET i == CHOOSE i \in 1..Len(l) :
                     /\ l[i] = "UFF08" /\ FindFrom(l, i, "UFF09") # 0
                     /\ \A k \in 1..(i - 1) :
                           ~(l[k] = "UFF08" /\ FindFrom(l, k, "UFF09") # 0)
         IN  SubSeq(l, 1, i - 1) \o Drop(l, FindFrom(l, i, "UFF09"))
    ELSE l

\* re.sub(r"\uff08[^\uff09]*\uff09", "", line)
RemoveFullWidthParens(l) == RemoveEnclosed(l, "UFF08", "UFF09")

\* re.findall(r"[...]+", line): the maximal runs of allow-listed characters
RECURSIVE FindAllFrom(_, _)
FindAllFrom(s, acc) ==
    IF s = <<>> THEN acc
    ELSE LET n == Span(s, AllowList)
         IN  IF n = 0
             THEN FindAllFrom(Tail(s), acc)
             ELSE FindAllFrom(Drop(s, n), Append(acc, SubSeq(s, 1, n)))

\* the first run only (re.search in place of re.findall)
findfirst(l) ==
    IF FindAllFrom(l, <<>>) = <<>> THEN <<>> ELSE <<Head(FindAllFrom(l, <<>>))>>

findall(l) == FindAllFrom(l, <<>>)

\* " ".join(parts)
RECURSIVE join_spaced(_)
join_spaced(parts) ==
    IF parts = <<>> THEN <<>>
    ELSE IF Len(parts) = 1 THEN Head(parts)
    ELSE Head(parts) \o <<" ">> \o join_spaced(Tail(parts))

\* "".join(parts)
RECURSIVE join(_)
join(parts) ==
    IF parts = <<>> THEN <<>> ELSE Head(parts) \o join(Tail(parts))

\* text = "".join(filtered).strip()
FilterText(l) == Strip(join(findall(l)))

\* `line` after the three substitutions
Substituted(l) == RemoveFullWidthParens(RemoveAsciiParens(StripOrdinal(l)))

\* does the iteration reach `continue` before the substitutions
Skipped(l) == l = <<>> \/ IsAnnotationLine(l)

\* `line` at the end of the iteration on the trimmed line l
LineAfter(l) == IF Skipped(l) THEN l ELSE Substituted(l)

\* `text` of the iteration on the trimmed line l (<<>>: nothing is appended)
LineText(l) == IF Skipped(l) THEN <<>> ELSE FilterText(Substituted(l))

\* result_parts after the iterations on ls
RECURSIVE CollectParts(_, _)
CollectParts(ls, parts) ==
    IF ls = <<>> THEN parts
    ELSE CollectParts(Tail(ls),
                      IF LineText(Head(ls)) # <<>>
                      THEN Append(parts, LineText(Head(ls)))
                      ELSE parts)

\* the whole function, as the handlers call it
extract_chinese_text(raw) ==
    IF Strip(raw) = <<>>
    THEN <<>>
    ELSE join(CollectParts(StripLines(splitlines(raw)), <<>>))

----------------------------------------------------------------------------
(* Inputs.                                                                 *)

\* the longest single line given to extract_chinese_text
MaxLine == 4

\* the longest middle line of a three-line input
MaxAnn == 4

StrUpTo(S, n) == UNION {[1..k -> S] : k \in 0..n}

LineAlphabet ==
    {"U4F60", "A", "1", "UFF11", ".", "U3001", " ", "(", ")", "UFF08", "UFF09"}

AnnAlphabet == {"U4F60", "A", "(", ")", " "}

\* the first and last lines put around a middle line
Contexts ==
    { <<>>, <<"U4F60">>, <<"1", ".", "A", "CR">>, <<" ">> }

ThreeLines(a, p, b) == a \o <<"LF">> \o p \o <<"LF">> \o b

\* one line
LineInputs == StrUpTo(LineAlphabet, MaxLine)

\* three lines
ThreeLineInputs ==
    { ThreeLines(a, p, b) :
         a \in Contexts, p \in StrUpTo(AnnAlphabet, MaxAnn), b \in Contexts }

----------------------------------------------------------------------------
(* extract_chinese_text, one action per step of the function.              *)

ExtractIdle ==
    /\ pc = "idle" /\ raw_text = <<>> /\ lines = <<>> /\ idx = 0
    /\ line = <<>> /\ text = <<>> /\ result_parts = <<>> /\ result = <<>>

\* lines 35-39: the early return, or the split into trimmed lines
ExtractCall ==
    /\ pc = "call"
    /\ IF Strip(raw_text) = <<>>
       THEN /\ result' = <<>>
            /\ pc' = "done"
            /\ UNCHANGED <<lines, idx, result_parts>>
       ELSE /\ lines' = StripLines(splitlines(raw_text))
            /\ result_parts' = <<>>
            /\ idx' = 1
            /\ pc' = "loop"
            /\ UNCHANGED result
    /\ UNCHANGED <<raw_text, line, text, envvars, convvars, guivars>>

\* lines 41-61: one iteration of the for loop
ExtractIterate ==
    /\ pc = "loop"
    /\ idx <= Len(lines)
    /\ line' = LineAfter(lines[idx])
    /\ text' = LineText(lines[idx])
    /\ result_parts' = IF LineText(lines[idx]) # <<>>
                       THEN Append(result_parts, LineText(lines[idx]))
                       ELSE result_parts
    /\ idx' = idx + 1
    /\ UNCHANGED <<raw_text, pc, lines, result, envvars, convvars, guivars>>

\* line 63
ExtractReturn ==
    /\ pc = "loop"
    /\ idx > Len(lines)
    /\ result' = join(result_parts)
    /\ pc' = "done"
    /\ UNCHANGED <<raw_text, lines, idx, line, text, result_parts,
                   envvars, convvars, guivars>>

----------------------------------------------------------------------------
(* convert_chinese.                                                        *)

Modes == {"t2s", "s2t"}

LibStates == {"ok", "missing", "raises"}

\* the two script variants of one character: U+570B traditional, U+56FD simplified
ToSimplifiedChar(c) == IF c = "U570B" THEN "U56FD" ELSE c

ToTraditionalChar(c) == IF c = "U56FD" THEN "U570B" ELSE c

\* OpenCC(mode).convert(text)
OpenCCConvert(mode, t) ==
    [i \in 1..Len(t) |->
        IF mode = "t2s" THEN ToSimplifiedChar(t[i]) ELSE ToTraditionalChar(t[i])]

\* HanziConv.toSimplified(text)
toSimplified(t) == [i \in 1..Len(t) |-> ToSimplifiedChar(t[i])]

\* HanziConv.toTraditional(text)
toTraditional(t) == [i \in 1..Len(t) |-> ToTraditionalChar(t[i])]

\* lines 14-19: the first try block; returned is FALSE when it falls through
OpenCCAttempt(t, mode, oc) ==
    IF oc = "ok"
    THEN [returned |-> TRUE, ret |-> OpenCCConvert(mode, t)]
    ELSE [returned |-> FALSE, ret |-> t]

\* the second try block with the two directions exchanged
HanziConvAttemptSwapped(t, mode, hz) ==
    IF hz = "ok"
    THEN [raised |-> FALSE,
          ret |-> IF mode = "t2s" THEN toTraditional(t)
                  ELSE IF mode = "s2t" THEN toSimplified(t)
                  ELSE t]
    ELSE [raised |-> FALSE, ret |-> t]

\* lines 21-30: the second try block
HanziConvAttempt(t, mode, hz) ==
    IF hz = "ok"
    THEN [raised |-> FALSE,
          ret |-> IF mode = "t2s" THEN toSimplified(t)
                  ELSE IF mode = "s2t" THEN toTraditional(t)
                  ELSE t]
    ELSE [raised |-> FALSE, ret |-> t]

\* the whole function, as the extract handler calls it
convert_chinese(t, mode, oc, hz) ==
    IF OpenCCAttempt(t, mode, oc).returned
    THEN OpenCCAttempt(t, mode, oc).ret
    ELSE HanziConvAttempt(t, mode, hz).ret

ConvertIdle ==
    /\ cpc = "idle" /\ conv_text = <<>> /\ conv_mode = "t2s"
    /\ consulted = <<>> /\ conv_ret = <<>> /\ conv_raised = FALSE

\* lines 14-19
ConvertTryOpenCC ==
    /\ cpc = "opencc"
    /\ consulted' = Append(consulted, "opencc")
    /\ IF OpenCCAttempt(conv_text, conv_mode, opencc).returned
       THEN /\ conv_ret' = OpenCCAttempt(conv_text, conv_mode, opencc).ret
            /\ cpc' = "done"
       ELSE /\ cpc' = "hanziconv"
            /\ UNCHANGED conv_ret
    /\ UNCHANGED <<conv_text, conv_mode, conv_raised, exvars, envvars, guivars>>

\* lines 21-30
ConvertTryHanziConv ==
    /\ cpc = "hanziconv"
    /\ consulted' = Append(consulted, "hanziconv")
    /\ conv_ret' = HanziConvAttempt(conv_text, conv_mode, hanziconv).ret
    /\ conv_raised' = HanziConvAttempt(conv_text, conv_mode, hanziconv).raised
    /\ cpc' = "done"
    /\ UNCHANGED <<conv_text, conv_mode, exvars, envvars, guivars>>

----------------------------------------------------------------------------
(* ExtractorApp.                                                           *)

\* the longest content of a widget or a file
MaxBuf == 2

\* what the user types
GuiAlphabet == {"U570B", " ", "."}

FileContents == StrUpTo(GuiAlphabet, MaxBuf)

\* widget.get("1.0", tk.END): the content and the widget's final newline
WidgetGet(buf) == buf \o <<"LF">>

GuiIdle ==
    /\ input_text = <<>> /\ output_text = <<>> /\ convert_mode = "t2s"
    /\ event = "init" /\ dialog = "none" /\ picker = FALSE /\ written = <<>>

Quiet == dialog' = "none" /\ picker' = FALSE /\ written' = <<>>

\* lines 212-222
load_txt ==
    /\ event' = "load_txt"
    /\ \/ UNCHANGED input_text
       \/ \E content \in FileContents : input_text' = content
    /\ Quiet
    /\ UNCHANGED <<output_text, convert_mode, exvars, envvars, convvars>>

\* the user types into, or deletes from, the input widget
EditInput ==
    /\ event' = "edit"
    /\ \/ \E c \in GuiAlphabet :
             Len(input_text) < MaxBuf /\ input_text' = Append(input_text, c)
       \/ input_text # <<>> /\ input_text' = SubSeq(input_text, 1, Len(input_text) - 1)
    /\ Quiet
    /\ UNCHANGED <<output_text, convert_mode, exvars, envvars, convvars>>

\* the user types into, or deletes from, the output widget
EditOutput ==
    /\ event' = "edit"
    /\ \/ \E c \in GuiAlphabet :
             Len(output_text) < MaxBuf /\ output_text' = Append(output_text, c)
       \/ output_text # <<>> /\ output_text' = SubSeq(output_text, 1, Len(output_text) - 1)
    /\ Quiet
    /\ UNCHANGED <<input_text, convert_mode, exvars, envvars, convvars>>

\* the radio buttons, lines 110-131
SelectMode ==
    /\ event' = "select"
    /\ \E m \in Modes : convert_mode' = m
    /\ Quiet
    /\ UNCHANGED <<input_text, output_text, exvars, envvars, convvars>>

\* lines 224-233
ExtractResult(inp, mode, oc, hz) ==
    convert_chinese(extract_chinese_text(WidgetGet(inp)), mode, oc, hz)

\* the handler leaving the output widget alone when the result is empty
extract_keep ==
    /\ event' = "extract"
    /\ output_text' = IF ExtractResult(input_text, convert_mode, opencc, hanziconv) = <<>>
                      THEN output_text
                      ELSE ExtractResult(input_text, convert_mode, opencc, hanziconv)
    /\ dialog' = IF ExtractResult(input_text, convert_mode, opencc, hanziconv) = <<>>
                 THEN "warn_empty" ELSE "none"
    /\ picker' = FALSE
    /\ written' = <<>>
    /\ UNCHANGED <<input_text, convert_mode, exvars, envvars, convvars>>

extract ==
    /\ event' = "extract"
    /\ output_text' = ExtractResult(input_text, convert_mode, opencc, hanziconv)
    /\ dialog' = IF ExtractResult(input_text, convert_mode, opencc, hanziconv) = <<>>
                 THEN "warn_empty" ELSE "none"
    /\ picker' = FALSE
    /\ written' = <<>>
    /\ UNCHANGED <<input_text, convert_mode, exvars, envvars, convvars>>

\* the content of the widget without .strip()
SaveContentUntrimmed(out) == WidgetGet(out)

\* line 236
SaveContent(out) == Strip(WidgetGet(out))

\* lines 235-251
save_txt ==
    /\ event' = "save_txt"
    /\ IF SaveContent(output_text) = <<>>
       THEN dialog' = "warn_save" /\ picker' = FALSE /\ written' = <<>>
       ELSE /\ picker' = TRUE
            /\ \/ dialog' = "none" /\ written' = <<>>
               \/ dialog' = "info_saved" /\ written' = <<SaveContent(output_text)>>
    /\ UNCHANGED <<input_text, output_text, convert_mode, exvars, envvars, convvars>>

\* lines 253-255
clear ==
    /\ event' = "clear"
    /\ input_text' = <<>>
    /\ output_text' = <<>>
    /\ Quiet
    /\ UNCHANGED <<convert_mode, exvars, envvars, convvars>>

----------------------------------------------------------------------------
(* Specifications.                                                         *)

\* the longest text given to convert_chinese
MaxConv == 3

ConvAlphabet == {"U570B", "U56FD", "A"}

\* the state at a call of extract_chinese_text(raw)
ExtractCalled(raw) ==
    /\ raw_text = raw
    /\ pc = "call"
    /\ lines = <<>> /\ idx = 0 /\ line = <<>> /\ text = <<>>
    /\ result_parts = <<>> /\ result = <<>>
    /\ opencc = "missing" /\ hanziconv = "missing"
    /\ ConvertIdle
    /\ GuiIdle

\* a call of extract_chinese_text on one line
Init == \E raw \in LineInputs : ExtractCalled(raw)

Next == ExtractCall \/ ExtractIterate \/ ExtractReturn

Spec == Init /\ [][Next]_vars

\* a call of extract_chinese_text on three lines
InitLines == \E raw \in ThreeLineInputs : ExtractCalled(raw)

SpecLines == InitLines /\ [][Next]_vars

\* a call of convert_chinese in any runtime
InitConvert ==
    /\ ExtractIdle
    /\ opencc \in LibStates /\ hanziconv \in LibStates
    /\ conv_text \in StrUpTo(ConvAlphabet, MaxConv)
    /\ conv_mode \in Modes
    /\ cpc = "opencc"
    /\ consulted = <<>> /\ conv_ret = <<>> /\ conv_raised = FALSE
    /\ GuiIdle

NextConvert == ConvertTryOpenCC \/ ConvertTryHanziConv

SpecConvert == InitConvert /\ [][NextConvert]_vars

\* the application after ExtractorApp.__init__, in any runtime
InitGui ==
    /\ ExtractIdle
    /\ opencc \in LibStates /\ hanziconv \in LibStates
    /\ ConvertIdle
    /\ GuiIdle

NextGui ==
    \/ load_txt
    \/ EditInput
    \/ EditOutput
    \/ SelectMode
    \/ extract
    \/ save_txt
    \/ clear

SpecGui == InitGui /\ [][NextGui]_vars

----------------------------------------------------------------------------
(* What the claims speak of, stated without the operators of the model's   *)
(* regular expressions.                                                    *)

\* an iteration of the loop has ended: lines[idx - 1] is its trimmed line,
\* text its retained text
Iterated == pc = "loop" /\ idx > 1

\* l is d digits, w1 whitespace, a separator, w2 whitespace and a body
OrdinalForm(l, d, w1, w2) ==
    /\ d >= 1
    /\ d + w1 + 1 + w2 <= Len(l)
    /\ l[1] \in Digits
    /\ \A i \in 1..d : l[i] \in Digits
    /\ \A i \in (d + 1)..(d + w1) : l[i] \in Whitespace
    /\ l[d + w1 + 1] \in OrdinalSeparators
    /\ \A i \in (d + w1 + 2)..(d + w1 + 1 + w2) : l[i] \in Whitespace

OrdinalBody(l, d, w1, w2) == Drop(l, d + w1 + 1 + w2)

HasOrdinal(l) ==
    \E d \in 1..Len(l) : \E w1 \in 0..(Len(l) - d) : \E w2 \in 0..(Len(l) - d - w1) :
       OrdinalForm(l, d, w1, w2)

Parens == {"(", ")", "UFF08", "UFF09"}

NoParens(s) == \A i \in 1..Len(s) : s[i] \notin Parens

\* l is X, an opening parenthesis at i, Y, the closing one of its kind at j, Z
OnePair(l, i, j) ==
    /\ i < j
    /\ <<l[i], l[j]>> \in {<<"(", ")">>, <<"UFF08", "UFF09">>}
    /\ \A k \in (1..Len(l)) \ {i, j} : l[k] \notin Parens

\* steps 5 to 7 of the algorithm
Steps567(s) == FilterText(RemoveFullWidthParens(RemoveAsciiParens(s)))

\* the allow-listed characters of s, in order
Allowed(s) == SelectSeq(s, LAMBDA c : c \in AllowList)

\* "(", characters that are no ideograph, ")"
AnnotationForm(l) ==
    /\ Len(l) >= 2
    /\ Head(l) = "("
    /\ l[Len(l)] = ")"
    /\ \A i \in 2..(Len(l) - 1) : l[i] \notin CJK

\* raw_text is A, LF, a line P from i + 1 to j - 1, LF, B
MiddleLine(i, j) ==
    /\ i < j
    /\ raw_text[i] = "LF"
    /\ raw_text[j] = "LF"
    /\ \A k \in (i + 1)..(j - 1) : raw_text[k] \notin LineBreaks

Before(i) == SubSeq(raw_text, 1, i - 1)

After(j) == SubSeq(raw_text, j + 1, Len(raw_text))

----------------------------------------------------------------------------
(* The claims.                                                             *)

\* C1: the output for A, a line break, B is the output for A followed
\* directly by the output for B; empty and whitespace-only lines add
\* nothing, and a whitespace-only input gives the empty string.
C1_LineOrderNoSeparator ==
    /\ pc = "done" =>
          /\ \A k \in 1..Len(raw_text) :
                raw_text[k] \in LineBreaks =>
                   result = extract_chinese_text(Before(k))
                            \o extract_chinese_text(After(k))
          /\ (\A k \in 1..Len(raw_text) : raw_text[k] \in Whitespace)
                => result = <<>>
    /\ Iterated /\ lines[idx - 1] = <<>> => text = <<>>

C1_Witness ==
    /\ pc = "done"
    /\ \E k \in 1..Len(raw_text) :
          /\ raw_text[k] \in LineBreaks
          /\ extract_chinese_text(Before(k)) # <<>>
          /\ extract_chinese_text(After(k)) # <<>>
          /\ \E j \in (k + 1)..Len(raw_text) :
                MiddleLine(k, j) /\ Strip(SubSeq(raw_text, k + 1, j - 1)) = <<>>

\* C2: the text retained from a line made of digits, optional whitespace,
\* "." or the enumeration comma, optional whitespace and a body is what
\* steps 5 to 7 give for the body alone: the prefix is stripped once; a
\* body of ideographs only is retained exactly.
C2_OrdinalStrippedOnce ==
    Iterated =>
       \A d \in 1..Len(lines[idx - 1]) :
       \A w1 \in 0..(Len(lines[idx - 1]) - d) :
       \A w2 \in 0..(Len(lines[idx - 1]) - d - w1) :
          OrdinalForm(lines[idx - 1], d, w1, w2) =>
             LET body == OrdinalBody(lines[idx - 1], d, w1, w2)
             IN  /\ text = Steps567(body)
                 /\ (\A i \in 1..Len(body) : body[i] \in CJK) => text = body

C2_Witness ==
    /\ Iterated
    /\ \E d \in 1..Len(lines[idx - 1]) :
       \E w1 \in 0..(Len(lines[idx - 1]) - d) :
       \E w2 \in 0..(Len(lines[idx - 1]) - d - w1) :
          /\ OrdinalForm(lines[idx - 1], d, w1, w2)
          /\ HasOrdinal(OrdinalBody(lines[idx - 1], d, w1, w2))
          /\ text # <<>>

\* C3: the text retained from a line without ordinal prefix that is X, an
\* opening parenthesis, Y, the closing parenthesis of the same kind, Z, with
\* no other parenthesis, is the allow-list filter of X followed by Z.
C3_ParenthesisRemoved ==
    Iterated /\ ~HasOrdinal(lines[idx - 1]) =>
       \A i \in 1..Len(lines[idx - 1]), j \in 1..Len(lines[idx - 1]) :
          OnePair(lines[idx - 1], i, j) =>
             text = FilterText(SubSeq(lines[idx - 1], 1, i - 1)
                               \o Drop(lines[idx - 1], j))

C3_Witness ==
    /\ Iterated
    /\ ~HasOrdinal(lines[idx - 1])
    /\ \E i \in 1..Len(lines[idx - 1]), j \in 1..Len(lines[idx - 1]) :
          /\ OnePair(lines[idx - 1], i, j)
          /\ lines[idx - 1][i] = "UFF08"
          /\ j > i + 1
          /\ lines[idx - 1][i + 1] \in CJK
    /\ text # <<>>

\* C4: the text retained from a line without ordinal prefix and without
\* parentheses is the sequence of its allow-listed characters, in order,
\* trimmed; a line of ideographs, ASCII letters and ASCII digits only is
\* retained unmodified.
C4_AllowListFilter ==
    Iterated /\ ~HasOrdinal(lines[idx - 1]) /\ NoParens(lines[idx - 1]) =>
       /\ text = Strip(Allowed(lines[idx - 1]))
       /\ (\A i \in 1..Len(lines[idx - 1]) :
              lines[idx - 1][i] \in CJK \cup AsciiLetters \cup AsciiDigits)
             => text = lines[idx - 1]

C4_Witness ==
    /\ Iterated
    /\ ~HasOrdinal(lines[idx - 1])
    /\ NoParens(lines[idx - 1])
    /\ \E i \in 2..(Len(lines[idx - 1]) - 1) :
          /\ lines[idx - 1][i] \notin AllowList
          /\ lines[idx - 1][i - 1] \in CJK
          /\ lines[idx - 1][i + 1] \in AsciiLetters \cup AsciiDigits
    /\ Len(text) = Len(lines[idx - 1]) - 1

C9_NoPrefixProcessedAsIs ==
    Iterated /\ lines[idx - 1] # <<>> /\ ~HasOrdinal(lines[idx - 1]) =>
       text = Steps567(lines[idx - 1])

\* C10: the output holds no ASCII parenthesis, and the text retained from a
\* line holds no full-width opening parenthesis with a full-width closing
\* one anywhere after it.
C10_NoParentheticalSurvives ==
    /\ pc = "done" => \A k \in 1..Len(result) : result[k] \notin {"(", ")"}
    /\ Iterated =>
          /\ \A k \in 1..Len(text) : text[k] \notin {"(", ")"}
          /\ \A i \in 1..Len(text), j \in 1..Len(text) :
                ~(i < j /\ text[i] = "UFF08" /\ text[j] = "UFF09")

C10_Witness ==
    /\ Iterated
    /\ \E i \in 1..Len(lines[idx - 1]), j \in 1..Len(lines[idx - 1]) :
          /\ i < j
          /\ lines[idx - 1][i] = "UFF08"
          /\ lines[idx - 1][j] = "UFF08"
          /\ \E k \in (j + 1)..Len(lines[idx - 1]) : lines[idx - 1][k] = "UFF09"
    /\ \E k \in 1..Len(text) : text[k] = "UFF09"

\* C6: convert_chinese returns the result of opencc when opencc works,
\* without consulting hanziconv; otherwise the result of hanziconv
\* (toSimplified for t2s, toTraditional for s2t) when hanziconv works;
\* otherwise the text itself; no exception reaches the caller.
C6_TieredFallback ==
    cpc = "done" =>
       /\ conv_raised = FALSE
       /\ opencc = "ok" =>
             /\ conv_ret = OpenCCConvert(conv_mode, conv_text)
             /\ consulted = <<"opencc">>
       /\ opencc # "ok" => consulted = <<"opencc", "hanziconv">>
       /\ opencc # "ok" /\ hanziconv = "ok" /\ conv_mode = "t2s"
             => conv_ret = toSimplified(conv_text)
       /\ opencc # "ok" /\ hanziconv = "ok" /\ conv_mode = "s2t"
             => conv_ret = toTraditional(conv_text)
       /\ opencc # "ok" /\ hanziconv # "ok" => conv_ret = conv_text

C6_Witness ==
    /\ cpc = "done"
    /\ opencc = "raises"
    /\ hanziconv = "ok"
    /\ conv_mode = "s2t"
    /\ conv_ret # conv_text

\* C7: save writes nothing, opens no picker and warns when the trimmed
\* output buffer is empty; whatever is written is the trimmed output buffer,
\* which is then not empty; no other handler writes.
C7_SaveNeverWritesEmpty ==
    /\ written # <<>> =>
          /\ event = "save_txt"
          /\ picker
          /\ written = <<Strip(output_text)>>
          /\ Strip(output_text) # <<>>
    /\ event = "save_txt" /\ Strip(output_text) = <<>> =>
          /\ dialog = "warn_save"
          /\ ~picker
          /\ written = <<>>
    /\ event = "save_txt" /\ Strip(output_text) # <<>> =>
          /\ picker
          /\ dialog # "warn_save"

C7_Witness ==
    /\ event = "save_txt"
    /\ output_text # <<>>
    /\ Strip(output_text) = <<>>
    /\ dialog = "warn_save"

\* C8: every step of the extract handler replaces the output buffer by the
\* conversion of the extraction of the input buffer, whatever the buffer
\* held, leaves the input buffer and the direction as they are, and warns
\* exactly when the extraction is empty, the output buffer being empty then.
C8_ExtractCompletes ==
    [][event' = "extract" =>
          /\ input_text' = input_text
          /\ convert_mode' = convert_mode
          /\ output_text' = convert_chinese(extract_chinese_text(input_text \o <<"LF">>),
                                            convert_mode, opencc, hanziconv)
          /\ dialog' = "warn_empty"
                <=> extract_chinese_text(input_text \o <<"LF">>) = <<>>
          /\ dialog' = "warn_empty" => output_text' = <<>>]_vars

C8_Witness ==
    /\ event = "extract"
    /\ dialog = "warn_empty"
    /\ input_text # <<>>
    /\ output_text = <<>>

====
